---- MODULE Spec2Model ----
(***************************************************************************)
(* tuf-on-ci-delegate (signer/tuf_on_ci_sign/delegate.py): the interactive *)
(* editors of offline and online role configuration and the run of         *)
(* delegate(): dispatch, configuration write, commits, signing, push.      *)
(*                                                                         *)
(* Text typed by the operator is a sequence of one-character strings, so   *)
(* that strip/split/startswith/re.match are computed as Python computes    *)
(* them.  Every prompt is one step of the model.                           *)
(***************************************************************************)
EXTENDS Integers, Sequences, FiniteSets, TLC

VARIABLES
    pc,              \* position of the run (which prompt or call is next)
    state,           \* repo.state read at line 327
    role,            \* the ROLE argument / the prompted role name
    push,            \* the --push/--no-push flag
    stored,          \* Metadata Store: role name -> OfflineConfig or None
    storedOnline,    \* Metadata Store: the OnlineConfig or None
    prior,           \* local `config` of _update_*: what the store returned
    editRole,        \* the `role` parameter of the running offline editor
    current,         \* the caller's config object handed to the editor
    config,          \* the editor's local deep copy
    root_config,     \* local of _init_repository
    targets_config,  \* local of _init_repository
    vault_name,      \* local of _collect_online_keys
    key,             \* signing capability returned by get_signing_key_input
    unsigned,        \* repo.unsigned: roles that need the user's signature
    toSign,          \* repo.unsigned as read at lines 346 and 349
    dirty,           \* working tree: config writes and signatures not yet committed
    commits,         \* the commits made by this run, oldest first
    trace,           \* the calls made to the collaborators, in order
    echo,            \* the last message written to the terminal
    response,        \* the text last handed to verify_signers by the signer prompt
    edits,           \* number of menu entries chosen so far in this run
    alias            \* the names that refer to the object the editor's `config` names

vars == <<pc, state, role, push, stored, storedOnline, prior, editRole, current, config,
          root_config, targets_config, vault_name, key, unsigned, toSign, dirty, commits,
          trace, echo, response, edits, alias>>

---------------------------------------------------------------------------
(* Bounds of the model *)

\* number of menu entries (non-zero choices) the operator takes in one run
MaxEdits == 2

\* Python None: where a string is expected, and where a config object is expected
None == "<None>"
NoConfig == [none |-> TRUE]

---------------------------------------------------------------------------
(* Python string operations on sequences of characters *)

Digits == {"0", "1", "2", "3", "4", "5", "6", "7", "8", "9"}
Lower == {"a", "b", "c", "d", "e", "f", "g", "h", "i", "j", "k", "l", "m",
          "n", "o", "p", "q", "r", "s", "t", "u", "v", "w", "x", "y", "z"}
Upper == {"A", "B", "C", "D", "E", "F", "G", "H", "I", "J", "K", "L", "M",
          "N", "O", "P", "Q", "R", "S", "T", "U", "V", "W", "X", "Y", "Z"}
Whitespace == {" ", "\t", "\n", "\r", "\f"}

RECURSIVE LStrip(_, _)
LStrip(s, cs) ==
    IF s # <<>> /\ Head(s) \in cs THEN LStrip(Tail(s), cs) ELSE s

RECURSIVE RStrip(_, _)
RStrip(s, cs) ==
    IF s # <<>> /\ s[Len(s)] \in cs THEN RStrip(SubSeq(s, 1, Len(s) - 1), cs) ELSE s

\* str.strip(chars): both ends, any character of cs
StrStrip(s, cs) == RStrip(LStrip(s, cs), cs)

\* str.split(sep) for a one-character separator: always at least one field
RECURSIVE StrSplit(_, _)
StrSplit(s, sep) ==
    IF \E i \in 1..Len(s) : s[i] = sep
    THEN LET i == CHOOSE k \in 1..Len(s) :
                      s[k] = sep /\ \A j \in 1..(k - 1) : s[j] # sep
         IN  <<SubSeq(s, 1, i - 1)>> \o StrSplit(SubSeq(s, i + 1, Len(s)), sep)
    ELSE <<s>>

\* sep.join(list) with sep = ", "
RECURSIVE StrJoin(_)
StrJoin(list) ==
    IF list = <<>> THEN <<>>
    ELSE IF Len(list) = 1 THEN list[1]
    ELSE list[1] \o <<",", " ">> \o StrJoin(Tail(list))

StartsWithAt(s) == s # <<>> /\ s[1] = "@"

\* the character class [0-9a-zA-Z\-]
NameChar(c) == c \in Digits \cup Lower \cup Upper \cup {"-"}

\* the pattern without its end anchor
username_re_unanchored(s) ==
    /\ Len(s) >= 2
    /\ s[1] = "@"
    /\ NameChar(s[2])

\* re.match("^\@[0-9a-zA-Z\-]+$", s); `$` also matches before one final newline
username_re(s) ==
    LET body == IF s # <<>> /\ s[Len(s)] = "\n" THEN SubSeq(s, 1, Len(s) - 1) ELSE s
    IN  /\ Len(body) >= 2
        /\ body[1] = "@"
        /\ \A i \in 2..Len(body) : NameChar(body[i])

\* lines 60-62: strip the entry, prefix "@" when it is missing
normalize(s) ==
    LET t == StrStrip(s, Whitespace)
    IN  IF StartsWithAt(t) THEN t ELSE <<"@">> \o t

RECURSIVE normalize_all(_)
normalize_all(fields) ==
    IF fields = <<>> THEN <<>>
    ELSE <<normalize(Head(fields))>> \o normalize_all(Tail(fields))

\* verify_signers, the value_proc of the signer prompt: the signer list, or
\* BadParameter (ok = FALSE) for an empty response or at the first bad entry
verify_signers(text) ==
    LET r      == StrStrip(text, {"[", "]"})
        fields == normalize_all(StrSplit(r, ","))
    IN  IF r = <<>>
        THEN [ok |-> FALSE, signers |-> <<>>]
        ELSE IF \E i \in 1..Len(fields) : ~username_re(fields[i])
        THEN [ok |-> FALSE, signers |-> <<>>]
        ELSE [ok |-> TRUE, signers |-> fields]

---------------------------------------------------------------------------
(* Configuration values *)

\* OfflineConfig([repo.user_name], 1, 365, 60): lines 255 and 297
DefaultThreshold == 1
DefaultExpiry == 365
DefaultSigning == 60
\* OnlineConfig(keys, 2, 1, ...): line 262
DefaultTimestampExpiry == 2
DefaultTimestampSigning == 1

OfflineConfig(signers, threshold, expiry_period, signing_period) ==
    [signers |-> signers, threshold |-> threshold,
     expiry_period |-> expiry_period, signing_period |-> signing_period]

OnlineConfig(keys, timestamp_expiry, timestamp_signing, snapshot_expiry, snapshot_signing) ==
    [keys |-> keys,
     timestamp_expiry |-> timestamp_expiry, timestamp_signing |-> timestamp_signing,
     snapshot_expiry |-> snapshot_expiry, snapshot_signing |-> snapshot_signing]

\* copy.deepcopy: a new object with the same value
deepcopy(c) == c

\* repo.user_name and two other signers
user_name == <<"@", "a">>
OtherB == <<"@", "b">>
OtherC == <<"@", "c">>

OfflineRoles == {"root", "targets", "deleg"}
OnlineRoles == {"timestamp", "snapshot"}
\* the ROLE argument of the command line (None when it is not given)
RoleArgs == {None, "root", "deleg", "timestamp", "snapshot"}
\* the same for a run on an uninitialized repository, which does not read it
\* before the commit message
BootstrapRoleArgs == {None, "timestamp"}

\* `x in list`
InList(x, list) == \E i \in 1..Len(list) : list[i] = x

\* the key descriptors _collect_online_keys and _sigstore_import build:
\* key id, key type, and the x-tuf-on-ci-online-uri locator (None when absent)
KeyDescriptor(keyid, keytype, uri) ==
    [keyid |-> keyid, keytype |-> keytype,
     unrecognized_fields |-> [f \in {"x-tuf-on-ci-online-uri"} |-> uri]]

\* _sigstore_import: one key per workflow, both with the locator "sigstore:"
sigstore_import ==
    << KeyDescriptor("abcd", "sigstore-oidc", [scheme |-> "sigstore", id |-> ""]),
       KeyDescriptor("efgh", "sigstore-oidc", [scheme |-> "sigstore", id |-> ""]) >>

---------------------------------------------------------------------------
(* What the operator may type *)

\* text typed at the signer prompt; <<>> is the bare enter key (the default)
Responses ==
    { <<>>,
      <<"a">>,
      <<"@", "b", "-", "1">>,
      <<"a", ",", "b">>,
      <<"[", "@", "a", ",", " ", "@", "b", "]">>,
      <<"a", ",", "a">>,
      <<"b", "o", "b", "!">>,
      <<"a", ",", "b", "!">>,
      <<"[", "]">>,
      <<"a", ",", ",", "b">>,
      <<" ">>,
      <<"a", " ", "b">>,
      <<"@", "@", "a">>,
      <<"@">> }

\* integers typed at the menus, the threshold prompt and the day prompts
MenuInputs == 0..5
ThresholdInputs == 0..4
DayInputs == {0, 30}
\* text typed at the _collect_string prompts ("" is the bare enter key)
StringInputs == {"", "k1"}
\* text typed at the prompt before the push ("" is the bare enter key)
ConfirmInputs == {"", "n", "maybe"}

\* the SIGNING-EVENT argument and user_config.push_remote
event_name == "sign/event"
push_remote == "origin"

---------------------------------------------------------------------------
(* The repositories a run may start from *)

NoRoles == [r \in OfflineRoles |-> NoConfig]

RepoA ==
    [roles  |-> [r \in OfflineRoles |->
                   CASE r = "root"    -> OfflineConfig(<<user_name>>, 1, 365, 60)
                     [] r = "targets" -> OfflineConfig(<<user_name, OtherB>>, 2, 365, 60)
                     [] OTHER         -> NoConfig],
     online |-> OnlineConfig(sigstore_import, 2, 1, 365, 60)]

RepoB ==
    [roles  |-> [r \in OfflineRoles |->
                   CASE r = "root"    -> OfflineConfig(<<user_name, OtherB, OtherC>>, 3, 365, 60)
                     [] r = "targets" -> OfflineConfig(<<OtherB>>, 1, 90, 30)
                     [] OTHER         -> OfflineConfig(<<OtherB, OtherC>>, 1, 365, 60)],
     online |-> OnlineConfig(
                   <<KeyDescriptor("k0", "ecdsa", [scheme |-> "gcpkms", id |-> "k0"])>>,
                   2, 1, 365, 60)]

Repositories == {RepoA, RepoB}

Ev(op, arg) == [op |-> op, arg |-> arg]

Init ==
    /\ pc = "start"
    /\ push \in BOOLEAN
    /\ \/ /\ state = "UNINITIALIZED"
          /\ role \in BootstrapRoleArgs
          /\ stored = NoRoles
          /\ storedOnline = NoConfig
       \/ /\ state = "ACTIVE"
          /\ role \in RoleArgs
          /\ \E repo \in Repositories :
                /\ stored = repo.roles
                /\ storedOnline = repo.online
    /\ prior = NoConfig
    /\ editRole = None
    /\ current = NoConfig
    /\ config = NoConfig
    /\ root_config = NoConfig
    /\ targets_config = NoConfig
    /\ vault_name = ""
    /\ key = None
    /\ unsigned = <<>>
    /\ toSign = <<>>
    /\ dirty = [writes |-> {}, sigs |-> {}]
    /\ commits = <<>>
    /\ trace = <<>>
    /\ echo = ""
    /\ response = <<>>
    /\ edits = 0
    /\ alias = {}

---------------------------------------------------------------------------
(* click.prompt: an empty line stands for the default, and the default goes
   through the same conversion as typed text; a value the conversion refuses
   prints an error and the same prompt is issued again *)

\* click.IntRange(min, max)
IntRange(v, min, max) == min <= v /\ v <= max

\* type=int in place of the range
threshold_type_any(v, signers) == v \in Int

\* type=click.IntRange(1, len(config.signers)) of the threshold prompt
threshold_type(v, signers) == IntRange(v, 1, Len(signers))

\* type=int of the day prompts: any integer
int_type(v) == v \in Int

runVars == <<state, role, push>>
storeVars == <<stored, storedOnline, unsigned>>
gitVars == <<dirty, commits>>
initLocals == <<root_config, targets_config, vault_name, prior>>
signVars == <<key, toSign>>

---------------------------------------------------------------------------
(* _get_offline_input: lines 43-115 *)

\* `config = config`: the names of the argument's object name the result too
copied_shared(names) == names

\* copy.deepcopy returns a new object: none of the names that refer to the
\* argument's object refers to the copy
copied(names) == {}

\* `config.field = value` in an editor changes the object `config` names, and
\* with it what every other name of that object shows
assign_through_aliases ==
    /\ current' = IF "current" \in alias THEN config' ELSE current
    /\ root_config' = IF "root_config" \in alias THEN config' ELSE root_config
    /\ prior' = IF "prior" \in alias THEN config' ELSE prior

\* the call: the editor copies the config it is given (line 47); names are the
\* caller's names of the object it passes
get_offline_input(r, cfg, names) ==
    /\ editRole' = r
    /\ current' = cfg
    /\ config' = deepcopy(cfg)
    /\ alias' = copied(names)
    /\ pc' = "off_menu"

\* the threshold is always asked for
single_signer_never(signers) == FALSE

\* lines 94-95: a single signer needs no threshold prompt
single_signer(signers) == Len(signers) = 1

\* lines 79-87, 103: the menu; 0 (also the default) leaves the editor, which
\* the caller's continuation models
OfflineMenu ==
    /\ pc = "off_menu"
    /\ \E choice \in MenuInputs :
          \/ /\ ~IntRange(choice, 0, 2)
             /\ echo' = "Error: not in range"
             /\ UNCHANGED <<pc, edits>>
          \/ /\ IntRange(choice, 0, 2)
             /\ choice = 1
             /\ edits < MaxEdits
             /\ pc' = "off_signers"
             /\ edits' = edits + 1
             /\ echo' = "Please enter list of signers"
          \/ /\ IntRange(choice, 0, 2)
             /\ choice = 2
             /\ edits < MaxEdits
             /\ pc' = "off_expiry"
             /\ edits' = edits + 1
             /\ echo' = "Please enter expiry period in days"
    /\ response' = <<>>
    /\ UNCHANGED <<runVars, storeVars, gitVars, initLocals, signVars,
                   editRole, current, config, trace>>
    /\ UNCHANGED alias

\* lines 88-95: the signer prompt with value_proc=verify_signers
SignersPrompt ==
    /\ pc = "off_signers"
    /\ \E typed \in Responses :
          LET value == IF typed = <<>> THEN StrJoin(config.signers) ELSE typed
              v     == verify_signers(value)
          IN  /\ response' = value
              /\ \/ /\ ~v.ok
                    /\ echo' = "Error: bad parameter"
                    /\ UNCHANGED <<pc, config>>
                 \/ /\ v.ok
                    /\ single_signer(v.signers)
                    /\ config' = [config EXCEPT !.signers = v.signers, !.threshold = 1]
                    /\ pc' = "off_menu"
                    /\ echo' = "menu"
                 \/ /\ v.ok
                    /\ ~single_signer(v.signers)
                    /\ config' = [config EXCEPT !.signers = v.signers]
                    /\ pc' = "off_threshold"
                    /\ echo' = "Please enter threshold"
    /\ UNCHANGED <<runVars, storeVars, gitVars, targets_config, vault_name, signVars,
                   editRole, trace, edits>>
    /\ assign_through_aliases
    /\ UNCHANGED alias

\* lines 97-101: the threshold prompt, default the threshold so far
ThresholdPrompt ==
    /\ pc = "off_threshold"
    /\ \E v \in ThresholdInputs \cup {config.threshold} :
          \/ /\ ~threshold_type(v, config.signers)
             /\ echo' = "Error: not in range"
             /\ UNCHANGED <<pc, config>>
          \/ /\ threshold_type(v, config.signers)
             /\ config' = [config EXCEPT !.threshold = v]
             /\ pc' = "off_menu"
             /\ echo' = "menu"
    /\ response' = <<>>
    /\ UNCHANGED <<runVars, storeVars, gitVars, targets_config, vault_name, signVars,
                   editRole, trace, edits>>
    /\ assign_through_aliases
    /\ UNCHANGED alias

\* lines 104-108
ExpiryPrompt ==
    /\ pc = "off_expiry"
    /\ \E v \in DayInputs \cup {config.expiry_period} :
          /\ int_type(v)
          /\ config' = [config EXCEPT !.expiry_period = v]
    /\ pc' = "off_signing"
    /\ echo' = "Please enter signing period in days"
    /\ UNCHANGED <<runVars, storeVars, gitVars, targets_config, vault_name, signVars,
                   editRole, trace, response, edits>>
    /\ assign_through_aliases
    /\ UNCHANGED alias

\* lines 109-113
SigningPrompt ==
    /\ pc = "off_signing"
    /\ \E v \in DayInputs \cup {config.signing_period} :
          /\ int_type(v)
          /\ config' = [config EXCEPT !.signing_period = v]
    /\ pc' = "off_menu"
    /\ echo' = "menu"
    /\ UNCHANGED <<runVars, storeVars, gitVars, targets_config, vault_name, signVars,
                   editRole, trace, response, edits>>
    /\ assign_through_aliases
    /\ UNCHANGED alias

\* choice 0 at the offline menu: `break`, `return config`
OfflineReturns == pc = "off_menu"

---------------------------------------------------------------------------
(* _collect_online_keys, _collect_string, _get_online_input: lines 145-248 *)

\* line 149: the menu shows the locator of the first key
online_display_defined(c) ==
    /\ Len(c.keys) >= 1
    /\ "x-tuf-on-ci-online-uri" \in DOMAIN c.keys[1].unrecognized_fields

\* the call: the editor copies the config it is given (line 146)
get_online_input(cfg, names) ==
    /\ current' = cfg
    /\ config' = deepcopy(cfg)
    /\ alias' = copied(names)
    /\ pc' = "on_menu"

\* lines 149-190: the menu
OnlineMenu ==
    /\ pc = "on_menu"
    /\ online_display_defined(config)
    /\ \E choice \in MenuInputs :
          \/ /\ ~IntRange(choice, 0, 3)
             /\ echo' = "Error: not in range"
             /\ UNCHANGED <<pc, edits>>
          \/ /\ IntRange(choice, 0, 3)
             /\ choice = 1
             /\ edits < MaxEdits
             /\ pc' = "key_menu"
             /\ edits' = edits + 1
             /\ echo' = "Please select online key type"
          \/ /\ IntRange(choice, 0, 3)
             /\ choice = 2
             /\ edits < MaxEdits
             /\ pc' = "ts_expiry"
             /\ edits' = edits + 1
             /\ echo' = "Please enter timestamp expiry in days"
          \/ /\ IntRange(choice, 0, 3)
             /\ choice = 3
             /\ edits < MaxEdits
             /\ pc' = "sn_expiry"
             /\ edits' = edits + 1
             /\ echo' = "Please enter snapshot expiry in days"
    /\ UNCHANGED <<runVars, storeVars, gitVars, initLocals, signVars,
                   editRole, current, config, trace, response>>
    /\ UNCHANGED alias

\* lines 227-239: the hidden test key
test_key ==
    <<KeyDescriptor("fa47289", "ed25519",
                    [scheme |-> "envvar", id |-> "LOCAL_TESTING_KEY"])>>

\* lines 198-209, 227-239: the key type menu
KeyTypeMenu ==
    /\ pc = "key_menu"
    /\ \E choice \in MenuInputs :
          \/ /\ ~IntRange(choice, 1, 4)
             /\ echo' = "Error: not in range"
             /\ UNCHANGED <<pc, config>>
          \/ /\ choice = 1
             /\ config' = [config EXCEPT !.keys = sigstore_import]
             /\ pc' = "on_menu"
             /\ echo' = "menu"
          \/ /\ choice = 2
             /\ pc' = "gcp_key_id"
             /\ echo' = "Enter a Google Cloud KMS key id"
             /\ UNCHANGED config
          \/ /\ choice = 3
             /\ pc' = "azure_vault_name"
             /\ echo' = "Enter Azure vault name"
             /\ UNCHANGED config
          \/ /\ choice = 4
             /\ config' = [config EXCEPT !.keys = test_key]
             /\ pc' = "on_menu"
             /\ echo' = "menu"
    /\ UNCHANGED <<runVars, storeVars, gitVars, targets_config, vault_name, signVars,
                   editRole, trace, response, edits>>
    /\ assign_through_aliases
    /\ UNCHANGED alias

\* the import asked for again after it failed
GcpKeyPrompt_retry ==
    /\ pc = "gcp_key_id"
    /\ \E key_id \in StringInputs :
          \/ /\ key_id = ""
             /\ UNCHANGED <<pc, config, echo>>
          \/ /\ key_id # ""
             /\ config' = [config EXCEPT !.keys =
                   <<KeyDescriptor(key_id, "ecdsa", [scheme |-> "gcpkms", id |-> key_id])>>]
             /\ pc' = "on_menu"
             /\ echo' = "menu"
          \/ /\ key_id # ""
             /\ echo' = "Failed to read Google Cloud KMS key"
             /\ UNCHANGED <<pc, config>>
    /\ UNCHANGED <<runVars, storeVars, gitVars, targets_config, vault_name, signVars,
                   editRole, trace, response, edits>>
    /\ assign_through_aliases
    /\ UNCHANGED alias

\* lines 211-217: _collect_string asks again on an empty line; then
\* GCPSigner.import_ either returns (uri, key) or raises
GcpKeyPrompt ==
    /\ pc = "gcp_key_id"
    /\ \E key_id \in StringInputs :
          \/ /\ key_id = ""
             /\ UNCHANGED <<pc, config, echo>>
          \/ /\ key_id # ""
             /\ config' = [config EXCEPT !.keys =
                   <<KeyDescriptor(key_id, "ecdsa", [scheme |-> "gcpkms", id |-> key_id])>>]
             /\ pc' = "on_menu"
             /\ echo' = "menu"
          \/ /\ key_id # ""
             /\ pc' = "aborted"
             /\ echo' = "Failed to read Google Cloud KMS key"
             /\ UNCHANGED config
    /\ UNCHANGED <<runVars, storeVars, gitVars, targets_config, vault_name, signVars,
                   editRole, trace, response, edits>>
    /\ assign_through_aliases
    /\ UNCHANGED alias

\* line 219
AzureVaultPrompt ==
    /\ pc = "azure_vault_name"
    /\ \E name \in StringInputs :
          \/ /\ name = ""
             /\ UNCHANGED <<pc, echo, vault_name>>
          \/ /\ name # ""
             /\ vault_name' = name
             /\ pc' = "azure_key_name"
             /\ echo' = "Enter key name"
    /\ UNCHANGED <<runVars, storeVars, gitVars, root_config, targets_config, prior,
                   signVars, editRole, current, config, trace, response, edits>>
    /\ UNCHANGED alias

\* the imported key returned without line 223, which records its locator
AzureKeyPrompt_no_locator ==
    /\ pc = "azure_key_name"
    /\ \E key_name \in StringInputs :
          \/ /\ key_name = ""
             /\ UNCHANGED <<pc, config, echo>>
          \/ /\ key_name # ""
             /\ config' = [config EXCEPT !.keys =
                   <<[keyid |-> key_name, keytype |-> "rsa",
                      unrecognized_fields |-> [f \in {} |-> ""]]>>]
             /\ pc' = "on_menu"
             /\ echo' = "menu"
          \/ /\ key_name # ""
             /\ pc' = "aborted"
             /\ echo' = "Failed to read Azure Keyvault key"
             /\ UNCHANGED config
    /\ UNCHANGED <<runVars, storeVars, gitVars, targets_config, vault_name, signVars,
                   editRole, trace, response, edits>>
    /\ assign_through_aliases
    /\ UNCHANGED alias

\* lines 220-226
AzureKeyPrompt ==
    /\ pc = "azure_key_name"
    /\ \E key_name \in StringInputs :
          \/ /\ key_name = ""
             /\ UNCHANGED <<pc, config, echo>>
          \/ /\ key_name # ""
             /\ config' = [config EXCEPT !.keys =
                   <<KeyDescriptor(key_name, "rsa",
                                    [scheme |-> "azurekms", id |-> vault_name])>>]
             /\ pc' = "on_menu"
             /\ echo' = "menu"
          \/ /\ key_name # ""
             /\ pc' = "aborted"
             /\ echo' = "Failed to read Azure Keyvault key"
             /\ UNCHANGED config
    /\ UNCHANGED <<runVars, storeVars, gitVars, targets_config, vault_name, signVars,
                   editRole, trace, response, edits>>
    /\ assign_through_aliases
    /\ UNCHANGED alias

\* lines 170-174
TimestampExpiryPrompt ==
    /\ pc = "ts_expiry"
    /\ \E v \in DayInputs \cup {config.timestamp_expiry} :
          /\ int_type(v)
          /\ config' = [config EXCEPT !.timestamp_expiry = v]
    /\ pc' = "ts_signing"
    /\ echo' = "Please enter timestamp signing period in days"
    /\ UNCHANGED <<runVars, storeVars, gitVars, targets_config, vault_name, signVars,
                   editRole, trace, response, edits>>
    /\ assign_through_aliases
    /\ UNCHANGED alias

\* lines 175-179
TimestampSigningPrompt ==
    /\ pc = "ts_signing"
    /\ \E v \in DayInputs \cup {config.timestamp_signing} :
          /\ int_type(v)
          /\ config' = [config EXCEPT !.timestamp_signing = v]
    /\ pc' = "on_menu"
    /\ echo' = "menu"
    /\ UNCHANGED <<runVars, storeVars, gitVars, targets_config, vault_name, signVars,
                   editRole, trace, response, edits>>
    /\ assign_through_aliases
    /\ UNCHANGED alias

\* the snapshot prompt storing into the timestamp field
SnapshotExpiryPrompt_timestamp ==
    /\ pc = "sn_expiry"
    /\ \E v \in DayInputs \cup {config.snapshot_expiry} :
          /\ int_type(v)
          /\ config' = [config EXCEPT !.timestamp_expiry = v]
    /\ pc' = "sn_signing"
    /\ echo' = "Please enter snapshot signing period in days"
    /\ UNCHANGED <<runVars, storeVars, gitVars, targets_config, vault_name, signVars,
                   editRole, trace, response, edits>>
    /\ assign_through_aliases
    /\ UNCHANGED alias

\* lines 181-185
SnapshotExpiryPrompt ==
    /\ pc = "sn_expiry"
    /\ \E v \in DayInputs \cup {config.snapshot_expiry} :
          /\ int_type(v)
          /\ config' = [config EXCEPT !.snapshot_expiry = v]
    /\ pc' = "sn_signing"
    /\ echo' = "Please enter snapshot signing period in days"
    /\ UNCHANGED <<runVars, storeVars, gitVars, targets_config, vault_name, signVars,
                   editRole, trace, response, edits>>
    /\ assign_through_aliases
    /\ UNCHANGED alias

\* lines 186-190
SnapshotSigningPrompt ==
    /\ pc = "sn_signing"
    /\ \E v \in DayInputs \cup {config.snapshot_signing} :
          /\ int_type(v)
          /\ config' = [config EXCEPT !.snapshot_signing = v]
    /\ pc' = "on_menu"
    /\ echo' = "menu"
    /\ UNCHANGED <<runVars, storeVars, gitVars, targets_config, vault_name, signVars,
                   editRole, trace, response, edits>>
    /\ assign_through_aliases
    /\ UNCHANGED alias

\* choice 0 at the online menu: `break`, `return config`
OnlineReturns == pc = "on_menu" /\ online_display_defined(config)

---------------------------------------------------------------------------
(* The Metadata Store (SignerRepository) as the run sees it *)

RECURSIVE Without(_, _)
Without(list, x) ==
    IF list = <<>> THEN <<>>
    ELSE IF Head(list) = x THEN Without(Tail(list), x)
    ELSE <<Head(list)>> \o Without(Tail(list), x)

\* repo.get_role_config(role): None for a role that has no configuration
get_role_config(r) == IF r \in DOMAIN stored THEN stored[r] ELSE NoConfig

\* repo.unsigned after set_role_config(r, cfg, key): the role just written is
\* listed exactly when the acting user is one of its signers
unsigned_after_write(uns, r, cfg) ==
    IF InList(user_name, cfg.signers)
    THEN IF InList(r, uns) THEN uns ELSE Append(uns, r)
    ELSE Without(uns, r)

\* repo.unsigned after repo.sign(r)
unsigned_after_sign(uns, r) == Without(uns, r)

---------------------------------------------------------------------------
(* delegate, _init_repository, _update_online_roles, _update_offline_role *)

default_offline_config ==
    OfflineConfig(<<user_name>>, DefaultThreshold, DefaultExpiry, DefaultSigning)

\* lines 327-328, 251-256: an uninitialized repository starts the root editor
StartInit ==
    /\ pc = "start"
    /\ state = "UNINITIALIZED"
    /\ get_offline_input("root", default_offline_config, {"current"})
    /\ echo' = "Creating a new TUF-on-CI repository"
    /\ UNCHANGED <<runVars, storeVars, gitVars, initLocals, signVars,
                   trace, response, edits>>

\* every role name taken for an offline role
update_role_offline_only(r) ==
    IF get_role_config(r) = NoConfig
    THEN /\ prior' = NoConfig
         /\ get_offline_input(r, default_offline_config, {"current"})
         /\ echo' = "Creating a new delegation"
    ELSE /\ prior' = get_role_config(r)
         /\ get_offline_input(r, get_role_config(r), {"current", "prior"})
         /\ echo' = "Modifying delegation"

\* lines 333-336, 279-283, 291-301: the editor an active repository starts
update_role(r) ==
    IF r \in {"timestamp", "snapshot"}
    THEN /\ prior' = storedOnline
         /\ get_online_input(storedOnline, {"current", "prior"})
         /\ echo' = "Modifying online roles"
         /\ UNCHANGED editRole
    ELSE IF get_role_config(r) = NoConfig
    THEN /\ prior' = NoConfig
         /\ get_offline_input(r, default_offline_config, {"current"})
         /\ echo' = "Creating a new delegation"
    ELSE /\ prior' = get_role_config(r)
         /\ get_offline_input(r, get_role_config(r), {"current", "prior"})
         /\ echo' = "Modifying delegation"

\* lines 329-336 with the role given on the command line
StartUpdate ==
    /\ pc = "start"
    /\ state # "UNINITIALIZED"
    /\ role # None
    /\ update_role(role)
    /\ UNCHANGED <<runVars, storeVars, gitVars, root_config, targets_config, vault_name,
                   signVars, trace, response, edits>>

\* lines 330-331: no role given, the run asks for it
StartAskRole ==
    /\ pc = "start"
    /\ state # "UNINITIALIZED"
    /\ role = None
    /\ pc' = "ask_role"
    /\ echo' = "Enter name of role to modify"
    /\ UNCHANGED <<runVars, storeVars, gitVars, initLocals, signVars,
                   editRole, current, config, trace, response, edits>>
    /\ UNCHANGED alias

\* line 331 answered, then lines 333-336
RolePrompt ==
    /\ pc = "ask_role"
    /\ \E r \in RoleArgs \ {None} :
          /\ role' = r
          /\ update_role(r)
    /\ UNCHANGED <<state, push, storeVars, gitVars, root_config, targets_config,
                   vault_name, signVars, trace, response, edits>>

\* lines 254-257: the root editor returned, the targets editor starts from a
\* copy of what it returned
InitRootEdited ==
    /\ OfflineReturns
    /\ state = "UNINITIALIZED"
    /\ editRole = "root"
    /\ root_config' = config
    /\ get_offline_input("targets", deepcopy(config),
                         {"current"} \cup copied({"root_config"}))
    /\ echo' = "Configuring role targets"
    /\ response' = <<>>
    /\ UNCHANGED <<runVars, storeVars, gitVars, targets_config, vault_name, prior,
                   signVars, trace, edits>>

\* lines 257-264: the targets editor returned, the online editor starts from
\* the sigstore default
InitTargetsEdited ==
    /\ OfflineReturns
    /\ state = "UNINITIALIZED"
    /\ editRole = "targets"
    /\ targets_config' = config
    /\ get_online_input(OnlineConfig(sigstore_import,
                                     DefaultTimestampExpiry, DefaultTimestampSigning,
                                     root_config.expiry_period, root_config.signing_period),
                        {"current"})
    /\ echo' = "Configuring online roles"
    /\ response' = <<>>
    /\ UNCHANGED <<runVars, storeVars, gitVars, root_config, vault_name, prior,
                   signVars, editRole, trace, edits>>

\* the signing key asked for on account of the root signers alone
InitOnlineEdited_root_only ==
    /\ OnlineReturns
    /\ state = "UNINITIALIZED"
    /\ pc' = IF InList(user_name, root_config.signers) THEN "get_key" ELSE "write"
    /\ echo' = ""
    /\ UNCHANGED <<runVars, storeVars, gitVars, initLocals, signVars,
                   editRole, current, config, trace, response, edits>>
    /\ UNCHANGED alias

\* lines 264-271: the online editor returned; a signing key is asked for when
\* the user signs root or targets
InitOnlineEdited ==
    /\ OnlineReturns
    /\ state = "UNINITIALIZED"
    /\ pc' = IF \/ InList(user_name, root_config.signers)
                \/ InList(user_name, targets_config.signers)
             THEN "get_key" ELSE "write"
    /\ echo' = ""
    /\ UNCHANGED <<runVars, storeVars, gitVars, initLocals, signVars,
                   editRole, current, config, trace, response, edits>>
    /\ UNCHANGED alias

\* an editor that hands back the object it was given compares equal to it
config_unchanged_same_object(new_config, old_config) == TRUE

\* line 302 / line 284: `new_config == config`
config_unchanged(new_config, old_config) == new_config = old_config

\* a new role compared with the default it was offered
UpdateOfflineEdited_default_noop ==
    /\ OfflineReturns
    /\ state # "UNINITIALIZED"
    /\ \/ /\ config_unchanged(config, current)
          /\ pc' = "done"
          /\ echo' = "Nothing to do"
       \/ /\ ~config_unchanged(config, current)
          /\ pc' = IF InList(user_name, config.signers) THEN "get_key" ELSE "write"
          /\ echo' = ""
    /\ response' = <<>>
    /\ UNCHANGED <<runVars, storeVars, gitVars, initLocals, signVars,
                   editRole, current, config, trace, edits>>
    /\ UNCHANGED alias

\* lines 292-307, 338, 373: the offline editor returned to _update_offline_role
UpdateOfflineEdited ==
    /\ OfflineReturns
    /\ state # "UNINITIALIZED"
    /\ \/ /\ prior # NoConfig
          /\ config_unchanged(config, prior)
          /\ pc' = "done"
          /\ echo' = "Nothing to do"
       \/ /\ prior # NoConfig
          /\ ~config_unchanged(config, prior)
          /\ pc' = IF InList(user_name, config.signers) THEN "get_key" ELSE "write"
          /\ echo' = ""
       \/ /\ prior = NoConfig
          /\ pc' = IF InList(user_name, config.signers) THEN "get_key" ELSE "write"
          /\ echo' = ""
    /\ response' = <<>>
    /\ UNCHANGED <<runVars, storeVars, gitVars, initLocals, signVars,
                   editRole, current, config, trace, edits>>
    /\ UNCHANGED alias

\* lines 282-285, 338, 373: the online editor returned to _update_online_roles
UpdateOnlineEdited ==
    /\ OnlineReturns
    /\ state # "UNINITIALIZED"
    /\ \/ /\ config_unchanged(config, prior)
          /\ pc' = "done"
          /\ echo' = "Nothing to do"
       \/ /\ ~config_unchanged(config, prior)
          /\ pc' = "write"
          /\ echo' = ""
    /\ UNCHANGED <<runVars, storeVars, gitVars, initLocals, signVars,
                   editRole, current, config, trace, response, edits>>
    /\ UNCHANGED alias

\* lines 271 and 307: get_signing_key_input() returns a key or aborts the run
GetSigningKey ==
    /\ pc = "get_key"
    /\ \/ /\ key' = "signing key"
          /\ trace' = Append(trace, Ev("get_signing_key_input", ""))
          /\ pc' = "write"
          /\ UNCHANGED echo
       \/ /\ pc' = "aborted"
          /\ echo' = "Error"
          /\ UNCHANGED <<key, trace>>
    /\ UNCHANGED <<runVars, storeVars, gitVars, initLocals, toSign,
                   editRole, current, config, response, edits>>
    /\ UNCHANGED alias

\* a missing `return True`
init_repository_result_none == FALSE

\* line 276: _init_repository always reports a change
init_repository_result == TRUE

\* lines 338-344, 372-373: what delegate does with `changed`
after_update(changed) == IF changed THEN "commit" ELSE "done"

\* lines 273-276
WriteInit ==
    /\ pc = "write"
    /\ state = "UNINITIALIZED"
    /\ stored' = [stored EXCEPT !["root"] = root_config, !["targets"] = targets_config]
    /\ storedOnline' = config
    /\ unsigned' = unsigned_after_write(
                      unsigned_after_write(unsigned, "root", root_config),
                      "targets", targets_config)
    /\ trace' = trace \o << Ev("set_role_config", "root"),
                            Ev("set_role_config", "targets"),
                            Ev("set_online_config", "") >>
    /\ dirty' = [dirty EXCEPT !.writes = @ \cup {"root", "targets", "online"}]
    /\ pc' = after_update(init_repository_result)
    /\ echo' = IF init_repository_result THEN echo ELSE "Nothing to do"
    /\ UNCHANGED <<runVars, commits, initLocals, signVars,
                   editRole, current, config, response, edits>>
    /\ UNCHANGED alias

\* the role signed as it is written, before any commit
WriteOffline_signing ==
    /\ pc = "write"
    /\ state # "UNINITIALIZED"
    /\ role \notin {"timestamp", "snapshot"}
    /\ stored' = [r \in DOMAIN stored \cup {role} |-> IF r = role THEN config ELSE stored[r]]
    /\ unsigned' = unsigned
    /\ trace' = trace \o <<Ev("set_role_config", role), Ev("sign", role)>>
    /\ dirty' = [writes |-> dirty.writes \cup {role}, sigs |-> dirty.sigs \cup {role}]
    /\ pc' = "commit"
    /\ UNCHANGED <<runVars, storedOnline, commits, initLocals, signVars,
                   editRole, current, config, echo, response, edits>>
    /\ UNCHANGED alias

\* lines 309-310
WriteOffline ==
    /\ pc = "write"
    /\ state # "UNINITIALIZED"
    /\ role \notin {"timestamp", "snapshot"}
    /\ stored' = [r \in DOMAIN stored \cup {role} |-> IF r = role THEN config ELSE stored[r]]
    /\ unsigned' = unsigned_after_write(unsigned, role, config)
    /\ trace' = Append(trace, Ev("set_role_config", role))
    /\ dirty' = [dirty EXCEPT !.writes = @ \cup {role}]
    /\ pc' = "commit"
    /\ UNCHANGED <<runVars, storedOnline, commits, initLocals, signVars,
                   editRole, current, config, echo, response, edits>>
    /\ UNCHANGED alias

\* lines 287-288
WriteOnline ==
    /\ pc = "write"
    /\ state # "UNINITIALIZED"
    /\ role \in {"timestamp", "snapshot"}
    /\ storedOnline' = config
    /\ trace' = Append(trace, Ev("set_online_config", ""))
    /\ dirty' = [dirty EXCEPT !.writes = @ \cup {"online"}]
    /\ pc' = "commit"
    /\ UNCHANGED <<runVars, stored, unsigned, commits, initLocals, signVars,
                   editRole, current, config, echo, response, edits>>
    /\ UNCHANGED alias

\* lines 339-342
commit_message == IF role # None /\ role # ""
                  THEN "role/delegation change" ELSE "Initial root and targets"

\* the push taken whatever the flag says
final_step_push_always == "confirm"

\* lines 356-371: what follows the commits
final_step == IF push THEN "confirm" ELSE "branch"

\* line 365: f"HEAD:refs/heads/{event_name}"
push_refspec(event) ==
    CASE event = "sign/event" -> "HEAD:refs/heads/sign/event"
      [] OTHER                -> "HEAD:refs/heads/"

\* click's BOOL type, which the prompt of line 359 gets from default=True
bool_type(text) ==
    CASE text \in {"1", "true", "t", "yes", "y", "on"}  -> [ok |-> TRUE, value |-> TRUE]
      [] text \in {"0", "false", "f", "no", "n", "off"} -> [ok |-> TRUE, value |-> FALSE]
      [] OTHER                                          -> [ok |-> FALSE, value |-> FALSE]

\* the signing block entered whatever repo.unsigned holds
needs_signature_always(uns) == TRUE

\* line 346: `if repo.unsigned:`
needs_signature(uns) == uns # <<>>

\* the sign calls made so far
RECURSIVE CountOp(_, _)
CountOp(events, op) ==
    IF events = <<>> THEN 0
    ELSE (IF Head(events).op = op THEN 1 ELSE 0) + CountOp(Tail(events), op)

\* lines 343-347: `git add metadata/`, `git commit -m msg -- metadata`, then
\* the look at repo.unsigned
CommitConfig ==
    /\ pc = "commit"
    /\ commits' = Append(commits, [msg |-> commit_message,
                                   writes |-> dirty.writes, sigs |-> dirty.sigs])
    /\ dirty' = [writes |-> {}, sigs |-> {}]
    /\ trace' = Append(trace, Ev("commit", commit_message))
    /\ \/ /\ needs_signature(unsigned)
          /\ toSign' = unsigned
          /\ pc' = IF unsigned = <<>> THEN "commit_signed" ELSE "sign"
          /\ echo' = "Your signature is required"
       \/ /\ ~needs_signature(unsigned)
          /\ pc' = final_step
          /\ UNCHANGED <<toSign, echo>>
    /\ UNCHANGED <<runVars, storeVars, initLocals, key,
                   editRole, current, config, response, edits>>
    /\ UNCHANGED alias

\* the loop shows the status of each role and signs none
SignRole_status_only ==
    /\ pc = "sign"
    /\ trace' = Append(trace, Ev("status", ""))
    /\ pc' = "commit_signed"
    /\ echo' = "status"
    /\ UNCHANGED <<runVars, storeVars, gitVars, initLocals, signVars,
                   editRole, current, config, response, edits>>
    /\ UNCHANGED alias

\* the loop left after its first pass
SignRole_first_only ==
    /\ pc = "sign"
    /\ CountOp(trace, "sign") < Len(toSign)
    /\ LET rolename == toSign[CountOp(trace, "sign") + 1]
       IN  /\ unsigned' = unsigned_after_sign(unsigned, rolename)
           /\ dirty' = [dirty EXCEPT !.sigs = @ \cup {rolename}]
           /\ trace' = Append(trace, Ev("sign", rolename))
    /\ pc' = "commit_signed"
    /\ echo' = "status"
    /\ UNCHANGED <<runVars, stored, storedOnline, commits, initLocals, signVars,
                   editRole, current, config, response, edits>>
    /\ UNCHANGED alias

\* lines 349-351: one pass of the loop over the list read at line 349
SignRole ==
    /\ pc = "sign"
    /\ CountOp(trace, "sign") < Len(toSign)
    /\ LET rolename == toSign[CountOp(trace, "sign") + 1]
       IN  /\ unsigned' = unsigned_after_sign(unsigned, rolename)
           /\ dirty' = [dirty EXCEPT !.sigs = @ \cup {rolename}]
           /\ trace' = Append(trace, Ev("sign", rolename))
    /\ pc' = IF CountOp(trace, "sign") + 1 = Len(toSign) THEN "commit_signed" ELSE "sign"
    /\ echo' = "status"
    /\ UNCHANGED <<runVars, stored, storedOnline, commits, initLocals, signVars,
                   editRole, current, config, response, edits>>
    /\ UNCHANGED alias

\* lines 353-354: `git add metadata/`, `git commit -m "Signed by ..."`
CommitSigned ==
    /\ pc = "commit_signed"
    /\ commits' = Append(commits, [msg |-> "Signed by",
                                   writes |-> dirty.writes, sigs |-> dirty.sigs])
    /\ dirty' = [writes |-> {}, sigs |-> {}]
    /\ trace' = Append(trace, Ev("commit", "Signed by"))
    /\ pc' = final_step
    /\ UNCHANGED <<runVars, storeVars, initLocals, signVars,
                   editRole, current, config, echo, response, edits>>
    /\ UNCHANGED alias

\* the push made without the prompt
ConfirmPush_automatic ==
    /\ pc = "confirm"
    /\ trace' = Append(trace, Ev("push", push_refspec(event_name)))
    /\ pc' = "done"
    /\ UNCHANGED <<runVars, storeVars, gitVars, initLocals, signVars,
                   editRole, current, config, echo, response, edits>>
    /\ UNCHANGED alias

\* lines 357-359: the prompt before the push.  Its value is not looked at: any
\* answer the BOOL type accepts, and the bare enter key, lead to the push; an
\* answer it refuses is asked for again; end of input or an interrupt at the
\* prompt ends the run
ConfirmPush ==
    /\ pc = "confirm"
    /\ \/ \E typed \in ConfirmInputs :
             LET v == IF typed = "" THEN [ok |-> TRUE, value |-> TRUE] ELSE bool_type(typed)
             IN  \/ /\ ~v.ok
                    /\ echo' = "Error: not a valid boolean"
                    /\ UNCHANGED <<pc, trace>>
                 \/ /\ v.ok
                    /\ trace' = Append(trace, Ev("confirm", typed))
                    /\ pc' = "push"
                    /\ UNCHANGED echo
       \/ /\ pc' = "aborted"
          /\ echo' = "Aborted!"
          /\ UNCHANGED trace
    /\ UNCHANGED <<runVars, storeVars, gitVars, initLocals, signVars,
                   editRole, current, config, response, edits>>
    /\ UNCHANGED alias

\* lines 360-367
Push ==
    /\ pc = "push"
    /\ trace' = Append(trace, Ev("push", push_refspec(event_name)))
    /\ pc' = "done"
    /\ UNCHANGED <<runVars, storeVars, gitVars, initLocals, signVars,
                   editRole, current, config, echo, response, edits>>
    /\ UNCHANGED alias

\* lines 370-371
Branch ==
    /\ pc = "branch"
    /\ trace' = Append(trace, Ev("branch", event_name))
    /\ pc' = "done"
    /\ echo' = "Creating local branch"
    /\ UNCHANGED <<runVars, storeVars, gitVars, initLocals, signVars,
                   editRole, current, config, response, edits>>
    /\ UNCHANGED alias

Next ==
    \/ StartInit \/ StartUpdate \/ StartAskRole \/ RolePrompt
    \/ OfflineMenu \/ SignersPrompt \/ ThresholdPrompt \/ ExpiryPrompt \/ SigningPrompt
    \/ OnlineMenu \/ KeyTypeMenu \/ GcpKeyPrompt \/ AzureVaultPrompt \/ AzureKeyPrompt
    \/ TimestampExpiryPrompt \/ TimestampSigningPrompt
    \/ SnapshotExpiryPrompt \/ SnapshotSigningPrompt
    \/ InitRootEdited \/ InitTargetsEdited \/ InitOnlineEdited
    \/ UpdateOfflineEdited \/ UpdateOnlineEdited
    \/ GetSigningKey \/ WriteInit \/ WriteOffline \/ WriteOnline
    \/ CommitConfig \/ SignRole \/ CommitSigned
    \/ ConfirmPush \/ Push \/ Branch

Spec == Init /\ [][Next]_vars

---------------------------------------------------------------------------
(* Properties *)

\* the editor has returned to delegate and the run has not been aborted
Returned == {"get_key", "write", "commit", "sign", "commit_signed",
             "confirm", "push", "branch", "done"}

HasOp(op) == CountOp(trace, op) > 0

HasEv(op, arg) == \E i \in 1..Len(trace) : trace[i] = Ev(op, arg)

\* C1: whenever the offline editor can return (it is at its menu), the signer
\* list is non-empty and 1 <= threshold <= |signers|, also after the signer
\* list was shortened below the threshold it had
C1_ThresholdWithinSigners ==
    pc = "off_menu" =>
        /\ Len(config.signers) >= 1
        /\ 1 <= config.threshold
        /\ config.threshold <= Len(config.signers)

\* the threshold prompt has refused an answer while the threshold so far (its
\* default) exceeds the new number of signers
C1_Witness ==
    /\ pc = "off_threshold"
    /\ config.threshold > Len(config.signers)
    /\ echo = "Error: not in range"

\* C2: a step of the signer prompt that accepts a list of exactly one entry
\* sets the threshold to 1 and goes back to the menu, not to the threshold
\* prompt, whatever the threshold was
C2_SingleSignerThreshold ==
    [][ ( /\ pc = "off_signers"
          /\ verify_signers(response').ok
          /\ Len(verify_signers(response').signers) = 1 )
        => ( /\ config'.signers = verify_signers(response').signers
             /\ config'.threshold = 1
             /\ pc' = "off_menu" ) ]_vars

\* a one-entry list was accepted for a role whose threshold was above 1
C2_Witness ==
    /\ pc = "off_menu"
    /\ response # <<>>
    /\ Len(verify_signers(response).signers) = 1
    /\ current.threshold > 1
    /\ Len(config.signers) = 1
    /\ config.threshold = 1

\* the entries of a response as the specification describes them: the
\* brackets removed, split at commas, blanks trimmed, "@" prefixed if missing
C3_Entries(text) == normalize_all(StrSplit(StrStrip(text, {"[", "]"}), ","))

\* "@" followed by one or more alphanumerics or hyphens
C3_Handle(e) ==
    /\ Len(e) >= 2
    /\ e[1] = "@"
    /\ \A i \in 2..Len(e) : e[i] \in Digits \cup Lower \cup Upper \cup {"-"}

C3_Valid(text) ==
    /\ StrStrip(text, {"[", "]"}) # <<>>
    /\ \A i \in 1..Len(C3_Entries(text)) : C3_Handle(C3_Entries(text)[i])

\* C3: a step of the signer prompt either accepts the response, and then the
\* signers are its entries and each is a handle, or the response is empty or
\* has an entry that is no handle, and then the config is unchanged, an error
\* is shown and the signer prompt is issued again
C3_SignerListValidated ==
    [][ pc = "off_signers" =>
          IF C3_Valid(response')
          THEN /\ config'.signers = C3_Entries(response')
               /\ \A i \in 1..Len(config'.signers) : C3_Handle(config'.signers[i])
               /\ pc' # "off_signers"
          ELSE /\ config' = config
               /\ pc' = "off_signers"
               /\ echo' = "Error: bad parameter" ]_vars

\* a list whose first entry is valid and whose second is not was refused
C3_Witness ==
    /\ pc = "off_signers"
    /\ echo = "Error: bad parameter"
    /\ response = <<"a", ",", "b", "!">>
    /\ config = current

\* C4: the signers of a config the offline editor can return are distinct and
\* the threshold does not exceed the number of distinct signers
C4_SignersDistinct ==
    pc = "off_menu" =>
        /\ \A i, j \in 1..Len(config.signers) :
              i # j => config.signers[i] # config.signers[j]
        /\ config.threshold <= Cardinality({config.signers[i] : i \in 1..Len(config.signers)})

\* C5: every expiry and signing period of a config an editor can return is
\* positive
C5_PeriodsPositive ==
    /\ pc = "off_menu" => config.expiry_period > 0 /\ config.signing_period > 0
    /\ pc = "on_menu" =>
          /\ config.timestamp_expiry > 0 /\ config.timestamp_signing > 0
          /\ config.snapshot_expiry > 0 /\ config.snapshot_signing > 0

\* what the run was asked to write
C6_Target == IF role \in {"timestamp", "snapshot"} THEN "online" ELSE role
C6_Stored == IF role \in {"timestamp", "snapshot"} THEN storedOnline ELSE get_role_config(role)

\* C6: in an active repository, for a role that has a config and for the
\* online config, once the editor has returned: an equal config ends the run
\* with "Nothing to do", nothing written, committed, pushed or branched; a
\* different config is never reported as nothing to do, and the run that
\* completes has written it and made the configuration commit of it
C6_NoOpIffEqual ==
    (state = "ACTIVE" /\ prior # NoConfig /\ pc \in Returned) =>
        IF config = prior
        THEN /\ pc = "done"
             /\ echo = "Nothing to do"
             /\ trace = <<>>
             /\ commits = <<>>
             /\ dirty = [writes |-> {}, sigs |-> {}]
             /\ C6_Stored = prior
        ELSE /\ echo # "Nothing to do"
             /\ pc = "done" =>
                   /\ C6_Stored = config
                   /\ HasOp(IF C6_Target = "online" THEN "set_online_config"
                                                     ELSE "set_role_config")
                   /\ commits # <<>>
                   /\ commits[1].writes = {C6_Target}
                   /\ commits[1].msg = "role/delegation change"

\* edits were made and they ended at the values the editor started from
C6_Witness ==
    /\ state = "ACTIVE"
    /\ pc = "done"
    /\ edits > 0
    /\ echo = "Nothing to do"

\* C7: the first commit holds the configuration written and no signature; a
\* second commit holds signatures only; it is made exactly when repo.unsigned
\* was non-empty after the configuration commit, and without that no role is
\* signed
C7_TwoPhaseCommit ==
    /\ Len(commits) <= 2
    /\ commits # <<>> =>
          /\ commits[1].msg # "Signed by"
          /\ commits[1].writes # {}
          /\ commits[1].sigs = {}
    /\ Len(commits) = 2 =>
          /\ commits[2].msg = "Signed by"
          /\ commits[2].writes = {}
          /\ commits[2].sigs # {}
    /\ HasOp("sign") => commits # <<>> /\ toSign # <<>>
    /\ (pc = "sign" /\ ~HasOp("sign")) => toSign = unsigned /\ Len(commits) = 1
    /\ (pc \in {"confirm", "push", "branch", "done"} /\ commits # <<>>) =>
          (Len(commits) = 2 <=> toSign # <<>>)

\* a run that made both commits
C7_Witness ==
    /\ pc = "done"
    /\ Len(commits) = 2
    /\ commits[2].sigs # {}

\* the place of a call in the order of a run
C8_Rank(e) ==
    CASE e.op = "get_signing_key_input" -> 0
      [] e.op \in {"set_role_config", "set_online_config"} -> 1
      [] e.op = "commit" /\ e.arg # "Signed by" -> 2
      [] e.op = "sign" -> 3
      [] e.op = "commit" /\ e.arg = "Signed by" -> 4
      [] e.op = "confirm" -> 5
      [] e.op \in {"push", "branch"} -> 6
      [] OTHER -> 7

\* C8: the calls of a run are in the order write, configuration commit, sign,
\* signature commit, push or branch; each commit and the final call happen at
\* most once, and nothing is signed, committed as signed, or pushed without
\* the step before it
C8_TotalOrder ==
    /\ \A i \in 1..(Len(trace) - 1) :
          /\ C8_Rank(trace[i]) <= C8_Rank(trace[i + 1])
          /\ C8_Rank(trace[i]) \in {2, 4, 6} => C8_Rank(trace[i]) < C8_Rank(trace[i + 1])
    /\ \A i \in 1..Len(trace) : C8_Rank(trace[i]) <= 6
    /\ HasOp("commit") => HasOp("set_role_config") \/ HasOp("set_online_config")
    /\ HasOp("sign") => HasOp("commit")
    /\ HasEv("commit", "Signed by") => HasOp("sign")
    /\ (HasOp("push") \/ HasOp("branch")) => HasOp("commit")

\* a run that wrote, committed, signed, committed and pushed
C8_Witness ==
    /\ pc = "done"
    /\ HasOp("set_role_config")
    /\ HasOp("sign")
    /\ HasEv("commit", "Signed by")
    /\ HasOp("push")

\* C9: a run on an uninitialized repository never reports nothing to do; when
\* it completes it has written root, targets and the online config, in this
\* order, as the editors returned them, the first commit holds them, and when
\* the acting user signs root or targets a signature commit follows it
C9_BootstrapAlwaysChanges ==
    state = "UNINITIALIZED" =>
        /\ echo # "Nothing to do"
        /\ pc = "done" =>
              /\ \E i, j, k \in 1..Len(trace) :
                    /\ i < j /\ j < k
                    /\ trace[i] = Ev("set_role_config", "root")
                    /\ trace[j] = Ev("set_role_config", "targets")
                    /\ trace[k] = Ev("set_online_config", "")
              /\ stored["root"] = root_config
              /\ stored["targets"] = targets_config
              /\ storedOnline = config
              /\ commits # <<>>
              /\ commits[1].writes = {"root", "targets", "online"}
              /\ ( \/ InList(user_name, root_config.signers)
                   \/ InList(user_name, targets_config.signers) )
                 => /\ Len(commits) = 2
                    /\ commits[2].msg = "Signed by"

\* the operator chose continue in all three editors
C9_Witness ==
    /\ state = "UNINITIALIZED"
    /\ pc = "done"
    /\ edits = 0
    /\ Len(commits) = 2

\* the acting user is a signer of the new config and was none of the prior one
C10_NewlyAdded ==
    /\ state = "ACTIVE"
    /\ role \notin {"timestamp", "snapshot"}
    /\ pc \in Returned
    /\ prior # NoConfig
    /\ ~InList(user_name, prior.signers)
    /\ InList(user_name, config.signers)

\* C10: when the acting user is newly added to the signers of a role, right
\* after the configuration commit the run is about to sign and the role is in
\* repo.unsigned; after the signature commit the role is not in repo.unsigned
C10_UnsignedUntilSigned ==
    C10_NewlyAdded =>
        /\ (Len(commits) = 1 /\ ~HasOp("sign")) =>
              /\ pc = "sign"
              /\ InList(role, unsigned)
        /\ Len(commits) = 2 => ~InList(role, unsigned)

\* such a run has made its signature commit
C10_Witness ==
    /\ C10_NewlyAdded
    /\ pc = "done"
    /\ Len(commits) = 2

\* C11: a run never makes both final calls nor one of them twice; without the
\* push flag the only final call is the branch call, named after the event;
\* with it the only final call is the push of HEAD to refs/heads/<event>; a
\* completed run that changed something has made exactly one final call and a
\* run that had nothing to do has made none
C11_ExactlyOneFinalCall ==
    /\ CountOp(trace, "push") + CountOp(trace, "branch") <= 1
    /\ ~push => ~HasOp("push")
    /\ push => ~HasOp("branch")
    /\ HasOp("branch") => HasEv("branch", event_name)
    /\ HasOp("push") => HasEv("push", "HEAD:refs/heads/sign/event")
    /\ pc = "done" =>
          IF echo = "Nothing to do"
          THEN ~HasOp("push") /\ ~HasOp("branch")
          ELSE /\ commits # <<>>
               /\ CountOp(trace, "push") + CountOp(trace, "branch") = 1

\* a changed run without the push flag ended with the branch call
C11_Witness ==
    /\ pc = "done"
    /\ ~push
    /\ commits # <<>>
    /\ trace[Len(trace)] = Ev("branch", event_name)

\* C12: a push call comes right after an answered confirmation prompt, which
\* comes after every commit of the run; a run ended at that prompt has made
\* no push and has kept the commits it made
C12_PushConfirmed ==
    /\ \A i \in 1..Len(trace) :
          trace[i].op = "push" =>
              /\ i > 1
              /\ trace[i - 1].op = "confirm"
              /\ \A j \in 1..Len(trace) : trace[j].op = "commit" => j < i - 1
              /\ HasOp("commit")
    /\ (pc = "aborted" /\ echo = "Aborted!") =>
          /\ ~HasOp("push")
          /\ commits # <<>>
          /\ Len(commits) = CountOp(trace, "commit")
          /\ dirty = [writes |-> {}, sigs |-> {}]

\* a run with both commits was ended at the prompt
C12_Witness ==
    /\ pc = "aborted"
    /\ echo = "Aborted!"
    /\ Len(commits) = 2
    /\ ~HasOp("push")

\* the message of the ClickException of lines 217 and 226
C13_Failed ==
    echo \in {"Failed to read Google Cloud KMS key", "Failed to read Azure Keyvault key"}

\* C13: a step in which a cloud KMS import fails ends the run with the error
\* message: the Metadata Store is as the run found it, no store call, no
\* commit, no push and no branch call has been made, nothing is left to
\* commit; and no step follows the end of the run, so no import is retried
C13_KmsFailureAborts ==
    [][ /\ pc # "aborted"
        /\ C13_Failed' =>
              /\ pc' = "aborted"
              /\ state \in {"UNINITIALIZED", "ACTIVE"}
              /\ state = "ACTIVE" => role' \in {"timestamp", "snapshot"}
              /\ trace' = <<>>
              /\ commits' = <<>>
              /\ dirty' = [writes |-> {}, sigs |-> {}]
              /\ stored' = stored
              /\ storedOnline' = storedOnline
              /\ state = "UNINITIALIZED" => stored' = NoRoles /\ storedOnline' = NoConfig
              /\ state = "ACTIVE" => storedOnline' = prior' ]_vars

\* the import failed after the root and targets editors of a new repository
\* had returned edited configs
C13_Witness ==
    /\ pc = "aborted"
    /\ C13_Failed
    /\ state = "UNINITIALIZED"
    /\ root_config # NoConfig
    /\ targets_config # root_config

\* the acting user is in a signer list the run writes
C14_UserSigns ==
    IF state = "UNINITIALIZED"
    THEN \/ InList(user_name, root_config.signers)
         \/ InList(user_name, targets_config.signers)
    ELSE /\ role \notin {"timestamp", "snapshot"}
         /\ InList(user_name, config.signers)

\* the run is past the place of the request and has something to write
C14_Past ==
    \/ pc \in {"write", "commit", "sign", "commit_signed", "confirm", "push", "branch"}
    \/ pc = "done" /\ echo # "Nothing to do"
    \/ pc = "aborted" /\ echo = "Aborted!"

\* C14: the signing capability is requested at most once and as the first
\* call of the run, before any write and any commit; a run that writes has
\* requested it exactly when the acting user is in the root or targets signers
\* (new repository) or in the signers of the new config (offline role); a run
\* with nothing to do and a run for an online role never request it
C14_KeyRequested ==
    /\ CountOp(trace, "get_signing_key_input") <= 1
    /\ HasOp("get_signing_key_input") =>
          trace[1].op = "get_signing_key_input" /\ key # None
    /\ pc = "get_key" => C14_UserSigns /\ trace = <<>> /\ commits = <<>>
    /\ C14_Past => (HasOp("get_signing_key_input") <=> C14_UserSigns)
    /\ (pc = "done" /\ echo = "Nothing to do") => ~HasOp("get_signing_key_input")
    /\ (state = "ACTIVE" /\ role \in {"timestamp", "snapshot"}) =>
          ~HasOp("get_signing_key_input") /\ pc # "get_key"

\* a new repository whose root the acting user does not sign and whose
\* targets they do: the capability was requested before the three writes
C14_Witness ==
    /\ state = "UNINITIALIZED"
    /\ pc = "commit"
    /\ ~InList(user_name, root_config.signers)
    /\ InList(user_name, targets_config.signers)
    /\ trace[1].op = "get_signing_key_input"

\* the positions inside the two editors
C15_EditorPcs ==
    {"off_menu", "off_signers", "off_threshold", "off_expiry", "off_signing",
     "on_menu", "key_menu", "gcp_key_id", "azure_vault_name", "azure_key_name",
     "ts_expiry", "ts_signing", "sn_expiry", "sn_signing"}

\* a step taken inside one call of an editor
C15_EditStep ==
    /\ pc \in C15_EditorPcs
    /\ pc' \in C15_EditorPcs
    /\ editRole' = editRole
    /\ ~(pc = "off_menu" /\ pc' = "on_menu")

\* C15: no step inside an editor changes the config the caller handed to it,
\* nor what the store returned; the root config of a new repository is what
\* the root editor returned, no later step changes it, whatever is edited for
\* targets, and it is what is written for root
C15_EditorsDoNotMutate ==
    [][ /\ C15_EditStep => current' = current /\ prior' = prior
        /\ (root_config = NoConfig /\ root_config' # NoConfig) =>
              /\ root_config' = config
              /\ current' = root_config'
        /\ root_config # NoConfig => root_config' = root_config
        /\ (state = "UNINITIALIZED" /\ pc = "write") => stored'["root"] = root_config
      ]_vars

\* a new repository was written with a root config that was edited and a
\* targets config edited away from it
C15_Witness ==
    /\ state = "UNINITIALIZED"
    /\ pc = "done"
    /\ root_config # default_offline_config
    /\ targets_config # root_config
    /\ stored["root"] = root_config
    /\ stored["targets"] = targets_config

\* the four cadence fields of an online config
C16_Cadence(c) ==
    <<c.timestamp_expiry, c.timestamp_signing, c.snapshot_expiry, c.snapshot_signing>>

\* what Key Provider Selection can return
C16_ProviderKeys(keys) ==
    \/ keys = sigstore_import
    \/ keys = test_key
    \/ /\ Len(keys) = 1
       /\ keys[1].unrecognized_fields["x-tuf-on-ci-online-uri"].scheme
             \in {"gcpkms", "azurekms"}

\* C16: a step inside an editor changes only the fields of the menu entry it
\* belongs to: the menus change nothing; the signer and threshold prompts
\* leave the two periods; the expiry and signing prompts leave signers and
\* threshold; key selection leaves the four cadence fields and either leaves
\* keys or replaces the whole list by what the provider returned; a timestamp
\* prompt leaves keys and the snapshot pair, a snapshot prompt leaves keys and
\* the timestamp pair
C16_FacetFrame ==
    [][ C15_EditStep =>
          /\ pc \in {"off_menu", "on_menu"} => config' = config
          /\ pc \in {"off_signers", "off_threshold"} =>
                /\ config'.expiry_period = config.expiry_period
                /\ config'.signing_period = config.signing_period
          /\ pc \in {"off_expiry", "off_signing"} =>
                /\ config'.signers = config.signers
                /\ config'.threshold = config.threshold
          /\ pc \in {"key_menu", "gcp_key_id", "azure_vault_name", "azure_key_name"} =>
                /\ C16_Cadence(config') = C16_Cadence(config)
                /\ config'.keys = config.keys \/ C16_ProviderKeys(config'.keys)
          /\ pc \in {"ts_expiry", "ts_signing"} =>
                /\ config'.keys = config.keys
                /\ config'.snapshot_expiry = config.snapshot_expiry
                /\ config'.snapshot_signing = config.snapshot_signing
          /\ pc \in {"sn_expiry", "sn_signing"} =>
                /\ config'.keys = config.keys
                /\ config'.timestamp_expiry = config.timestamp_expiry
                /\ config'.timestamp_signing = config.timestamp_signing
      ]_vars

\* the online editor is back at its menu after the keys were replaced and the
\* snapshot cadence was edited; the timestamp cadence is as it was
C16_Witness ==
    /\ pc = "on_menu"
    /\ config.keys # current.keys
    /\ config.snapshot_expiry # current.snapshot_expiry
    /\ config.timestamp_expiry = current.timestamp_expiry
    /\ config.timestamp_signing = current.timestamp_signing

\* the positions inside the online editor
C17_OnlineEditorPcs ==
    {"on_menu", "key_menu", "gcp_key_id", "azure_vault_name", "azure_key_name",
     "ts_expiry", "ts_signing", "sn_expiry", "sn_signing"}

\* the key list is non-empty and every key has the locator attribute
C17_KeysLocated(c) ==
    /\ Len(c.keys) >= 1
    /\ \A i \in 1..Len(c.keys) :
          "x-tuf-on-ci-online-uri" \in DOMAIN c.keys[i].unrecognized_fields

\* C17: at every position inside the online editor the keys of its config
\* are non-empty and each key has the locator attribute, so the menu can show
\* the locator of the first key; the same holds for an online config the run
\* has written
C17_KeysNonEmptyLocated ==
    /\ pc \in C17_OnlineEditorPcs =>
          /\ C17_KeysLocated(config)
          /\ online_display_defined(config)
    /\ HasOp("set_online_config") => C17_KeysLocated(storedOnline)

\* the keys were reconfigured twice and the last provider was Azure Key Vault
C17_Witness ==
    /\ pc = "on_menu"
    /\ edits = 2
    /\ config.keys # current.keys
    /\ config.keys # sigstore_import
    /\ config.keys[1].unrecognized_fields["x-tuf-on-ci-online-uri"].scheme = "azurekms"
    /\ C16_Cadence(config) = C16_Cadence(current)

\* the roles signed so far, in the order of the sign calls
C18_Signed ==
    LET calls == SelectSeq(trace, LAMBDA e : e.op = "sign")
    IN  [i \in 1..Len(calls) |-> calls[i].arg]

\* C18: the roles signed are the first roles of the list read from the
\* tracker after the configuration commit, in its order, so none is signed
\* twice and none outside the list; when the run leaves the loop the whole
\* list has been signed, the signatures of exactly these roles go into the
\* signature commit, and no sign call follows that commit
C18_SignsEachOnce ==
    /\ Len(C18_Signed) <= Len(toSign)
    /\ \A i \in 1..Len(C18_Signed) : C18_Signed[i] = toSign[i]
    /\ \A i, j \in 1..Len(toSign) : i # j => toSign[i] # toSign[j]
    /\ (pc = "sign" /\ C18_Signed = <<>>) => toSign = unsigned /\ toSign # <<>>
    /\ pc \in {"commit_signed", "confirm", "push", "branch"} => C18_Signed = toSign
    /\ (pc \in {"done", "aborted"} /\ commits # <<>>) => C18_Signed = toSign
    /\ Len(commits) = 2 =>
          /\ commits[2].sigs = {toSign[i] : i \in 1..Len(toSign)}
          /\ \A i, j \in 1..Len(trace) :
                (trace[i].op = "sign" /\ trace[j] = Ev("commit", "Signed by")) => i < j

\* root and targets of a new repository were signed, in this order
C18_Witness ==
    /\ pc = "done"
    /\ toSign = <<"root", "targets">>
    /\ C18_Signed = <<"root", "targets">>
    /\ Len(commits) = 2

\* the positions inside the offline editor
C19_OfflineEditorPcs ==
    {"off_menu", "off_signers", "off_threshold", "off_expiry", "off_signing"}

\* what the run has written, staged or committed
C19_Written ==
    dirty.writes \cup UNION {commits[i].writes : i \in 1..Len(commits)}

\* the editors run and the configs written, by repository state and role name
C19_Path ==
    /\ state = "UNINITIALIZED" =>
          /\ pc \in C19_OfflineEditorPcs => editRole \in {"root", "targets"}
          /\ prior = NoConfig
          /\ C19_Written \in {{}, {"root", "targets", "online"}}
          /\ \A i \in 1..Len(trace) :
                trace[i].op = "set_role_config" => trace[i].arg \in {"root", "targets"}
    /\ (state = "ACTIVE" /\ role = None) => pc \in {"start", "ask_role"}
    /\ (state = "ACTIVE" /\ role \in {"timestamp", "snapshot"}) =>
          /\ pc \notin C19_OfflineEditorPcs
          /\ pc # "get_key"
          /\ editRole = None
          /\ ~HasOp("set_role_config")
          /\ C19_Written \subseteq {"online"}
    /\ (state = "ACTIVE" /\ role \notin {None, "timestamp", "snapshot"}) =>
          /\ pc \notin C17_OnlineEditorPcs
          /\ pc # "start" => editRole = role
          /\ ~HasOp("set_online_config")
          /\ C19_Written \subseteq {role}
          /\ \A i \in 1..Len(trace) :
                trace[i].op = "set_role_config" => trace[i].arg = role

\* C19: a new repository takes the bootstrap path under any role name: the
\* offline editor for root and targets, then the online editor, and the three
\* writes; an active repository with role timestamp or snapshot runs the
\* online editor only and no step changes an offline role's config; with any
\* other role name it runs the offline editor for that role only and no step
\* changes the online config or another role's config
C19_Dispatch ==
    [][ /\ C19_Path'
        /\ (state = "UNINITIALIZED" /\ pc = "start") =>
              pc' = "off_menu" /\ editRole' = "root"
        /\ (state = "ACTIVE" /\ role' \in {"timestamp", "snapshot"}) =>
              stored' = stored
        /\ (state = "ACTIVE" /\ role' \notin {None, "timestamp", "snapshot"}) =>
              /\ storedOnline' = storedOnline
              /\ \A r \in DOMAIN stored \ {role'} : stored'[r] = stored[r]
      ]_vars

\* a new repository was bootstrapped by a run given the role name timestamp
C19_Witness ==
    /\ state = "UNINITIALIZED"
    /\ role = "timestamp"
    /\ pc = "done"
    /\ stored["root"] # NoConfig
    /\ stored["targets"] # NoConfig
    /\ storedOnline # NoConfig

\* the run is for an offline role of an active repository that had no config,
\* and its editor has returned
C20_NewRole ==
    /\ state = "ACTIVE"
    /\ role \notin {None, "timestamp", "snapshot"}
    /\ prior = NoConfig
    /\ pc \in Returned

\* C20: such a run never reports nothing to do; when the operator chose
\* continue at once the config is the default (the acting user as the only
\* signer, threshold 1, expiry 365, signing 60) and the signing capability is
\* requested before the write; the run that completes has written the config
\* for the role and made the configuration commit of it
C20_NewRoleAlwaysChanges ==
    C20_NewRole =>
        /\ echo # "Nothing to do"
        /\ edits = 0 =>
              /\ config = OfflineConfig(<<user_name>>, 1, 365, 60)
              /\ pc # "get_key" => HasOp("get_signing_key_input")
        /\ pc \in {"commit", "sign", "commit_signed", "confirm", "push", "branch", "done"} =>
              /\ stored[role] = config
              /\ HasEv("set_role_config", role)
        /\ pc \in {"sign", "commit_signed", "confirm", "push", "branch", "done"} =>
              /\ commits # <<>>
              /\ commits[1].writes = {role}
              /\ commits[1].msg = "role/delegation change"

\* the default was accepted at once for a role without config, and the run
\* completed with both commits
C20_Witness ==
    /\ C20_NewRole
    /\ edits = 0
    /\ pc = "done"
    /\ stored[role] = default_offline_config
    /\ Len(commits) = 2

====
